---- MODULE Spec2Model ----
(***************************************************************************)
(* Sentinel distributed task system: the Redis-backed priority queue       *)
(* (common/redis_queue.py), the Task value object (common/models.py), the  *)
(* submission endpoint (main.py) and the worker loop (worker/worker.py).   *)
(*                                                                         *)
(* Time is counted in whole seconds.  The idle sleep of 0.5 s is shorter   *)
(* than one unit of the clock and is modelled as a step of its own.        *)
(***************************************************************************)
EXTENDS Integers, Naturals, Sequences, FiniteSets, TLC

(***************************************************************************)
(* Bounds of the model.                                                    *)
(***************************************************************************)
MaxTasks == 2
NumWorkers == 2

Workers == 1..NumWorkers
TaskIds == 1..MaxTasks
Priorities == {1, 2}
Payloads == {"a"}

(***************************************************************************)
(* Program constants.                                                      *)
(***************************************************************************)
K == 1000000
MAX_RETRIES == 3
BASE == 2

VARIABLES
    queue,        \* sorted set QUEUE_KEY: set of [member, score]
    statusTable,  \* hash STATUS_KEY: task id -> status string ("" = no field)
    pc,           \* worker -> position in worker_loop
    task,         \* worker -> the local variable `task`
    claimed,      \* history: worker -> the entry its dequeue_task popped
    delay,        \* worker -> the local variable `delay`
    wakeAt,       \* worker -> time at which time.sleep(delay) returns
    raised,       \* worker -> exception that ended the loop ("" = none)
    now,          \* the clock: the last value time.time() or a sleep has seen
    zaddSince,    \* history: a zadd ran since the last dequeue_task result
    zaddBetween,  \* history: a zadd ran between the two results of claimLog
    inserted,     \* history: task id -> number of zadd calls for that id
    returned,     \* history: task id -> number of dequeue_task results
    claimLog,     \* history: the last two dequeue_task results, oldest first
    resolved      \* history: task id -> terminal status a worker has set

vars == <<queue, statusTable, pc, task, claimed, delay, wakeAt, raised, now,
          zaddSince, zaddBetween, inserted, returned, claimLog,
          resolved>>

(***************************************************************************)
(* common/models.py                                                        *)
(***************************************************************************)
Task(id, payload, priority, retries, status, created_at) ==
    [id |-> id, payload |-> payload, priority |-> priority,
     retries |-> retries, status |-> status, created_at |-> created_at]

NoTask == Task(0, "{}", 0, 0, "", 0)

\* variant: the dictionary lacks the retries field
to_dict_no_retries(t) ==
    [k \in {"id", "payload", "priority", "status", "created_at"} |->
        CASE k = "id" -> t.id
          [] k = "payload" -> t.payload
          [] k = "priority" -> t.priority
          [] k = "status" -> t.status
          [] k = "created_at" -> t.created_at]

\* asdict(self): the dictionary of all six fields
to_dict(t) ==
    [k \in {"id", "payload", "priority", "retries", "status", "created_at"} |->
        CASE k = "id" -> t.id
          [] k = "payload" -> t.payload
          [] k = "priority" -> t.priority
          [] k = "retries" -> t.retries
          [] k = "status" -> t.status
          [] k = "created_at" -> t.created_at]

\* data.get(key, default)
DictGet(data, key, default) ==
    IF key \in DOMAIN data THEN data[key] ELSE default

\* variant: the payload is not read back
from_dict_no_payload(data) ==
    Task(data["id"],
         "{}",
         DictGet(data, "priority", 0),
         DictGet(data, "retries", 0),
         DictGet(data, "status", "pending"),
         data["created_at"])

from_dict(data) ==
    Task(data["id"],
         DictGet(data, "payload", "{}"),
         DictGet(data, "priority", 0),
         DictGet(data, "retries", 0),
         DictGet(data, "status", "pending"),
         data["created_at"])

(***************************************************************************)
(* common/redis_queue.py                                                   *)
(***************************************************************************)
RECURSIVE Pow(_, _)
Pow(b, n) == IF n = 0 THEN 1 ELSE b * Pow(b, n - 1)

\* variant: the priority term with the wrong sign
priority_score_ascending(priority, created_at) == (priority * K) + created_at

\* variant: the creation time with the wrong sign
priority_score_lifo(priority, created_at) == -(priority * K) - created_at

\* variant: the priority is not scaled by K
priority_score_unscaled(priority, created_at) == -priority + created_at

priority_score(priority, created_at) == -(priority * K) + created_at

\* variant: the key is overwritten with the one member instead of added to
ZAdd_Overwrite(q, member, score) == {[member |-> member, score |-> score]}

\* ZADD key {member: score}: a member already present gets the new score
ZAdd(q, member, score) ==
    {e \in q : e.member # member} \cup {[member |-> member, score |-> score]}

\* Order of the sorted set: by score, equal scores by member.  The member is
\* the JSON text of the task, which begins with the id.
ZLess(a, b) ==
    \/ a.score < b.score
    \/ a.score = b.score /\ a.member["id"] < b.member["id"]

\* variant: the other end of the sorted set (ZPOPMAX)
ZMax(q) == CHOOSE e \in q : \A o \in q : o = e \/ ~ZLess(e, o)

ZMin(q) == CHOOSE e \in q : \A o \in q : o = e \/ ~ZLess(o, e)

\* variant: the entry that is removed is not the one that is returned
ZPopMin_OtherEnd(q) == IF q = {} THEN q ELSE q \ {ZMax(q)}

\* variant: a peek (ZRANGE key 0 0) that leaves the entry in the set
ZPeekMin(q) == q

\* ZPOPMIN key 1: the set after the pop
ZPopMin(q) == IF q = {} THEN q ELSE q \ {ZMin(q)}

\* variant: HLEN of the status table instead of ZCARD of the queue
get_queue_size_hlen == Cardinality({i \in TaskIds : statusTable[i] # ""})

\* ZCARD key
get_queue_size == Cardinality(queue)

\* HSET STATUS_KEY id status
HSet(st, id, status) == [st EXCEPT ![id] = status]

mark_task_in_progress(st, task_id) == HSet(st, task_id, "IN_PROGRESS")
mark_task_completed(st, task_id) == HSet(st, task_id, "COMPLETED")
mark_task_failed(st, task_id) == HSet(st, task_id, "FAILED")

\* HVALS STATUS_KEY counted under the four keys of counts
get_all_status_counts ==
    [s \in {"QUEUED", "IN_PROGRESS", "COMPLETED", "FAILED"} |->
        Cardinality({i \in TaskIds : statusTable[i] = s})]

get_stats ==
    [queue_size |-> get_queue_size, status_counts |-> get_all_status_counts]

\* no entry: what ZPOPMIN returns for an empty set
NoEntry == [member |-> to_dict(NoTask), score |-> 0]

\* first command of enqueue_task
EnqueueZAdd(q, t) ==
    ZAdd(q, to_dict(t), priority_score(t.priority, t.created_at))

\* second command of enqueue_task
EnqueueHSet(st, t) == HSet(st, t.id, t.status)

(***************************************************************************)
(* Initial state: empty store, every worker at the top of its loop.        *)
(***************************************************************************)
Init ==
    /\ queue = {}
    /\ statusTable = [i \in TaskIds |-> ""]
    /\ pc = [w \in Workers |-> "poll"]
    /\ task = [w \in Workers |-> NoTask]
    /\ claimed = [w \in Workers |-> NoEntry]
    /\ delay = [w \in Workers |-> 0]
    /\ wakeAt = [w \in Workers |-> 0]
    /\ raised = [w \in Workers |-> ""]
    /\ now = 0
    /\ zaddSince = FALSE
    /\ zaddBetween = FALSE
    /\ inserted = [i \in TaskIds |-> 0]
    /\ returned = [i \in TaskIds |-> 0]
    /\ claimLog = <<>>
    /\ resolved = [i \in TaskIds |-> ""]

(***************************************************************************)
(* main.py: submit_task                                                    *)
(***************************************************************************)
\* uuid.uuid4() never repeats an id
UsedIds == {i \in TaskIds : inserted[i] > 0}

\* what the clock may have advanced by since it was last looked at
Elapsed == {1, K}

\* enqueue_task: zadd of the serialised task, then hset of its status
enqueue_task(q, st, t) == <<EnqueueZAdd(q, t), EnqueueHSet(st, t)>>

\* The handler as a whole: Task(..., created_at=time.time()) is built and
\* enqueue_task(task) runs in a thread.  Its hset writes the status field of
\* a new id, which no step of a worker reads, so it is taken with the zadd.
submit_task ==
    \E id \in TaskIds \ UsedIds, payload \in Payloads, priority \in Priorities,
       d \in Elapsed :
        LET t == Task(id, payload, priority, 0, "pending", now + d)
            store == enqueue_task(queue, statusTable, t)
        IN
        /\ now' = now + d
        /\ queue' = store[1]
        /\ statusTable' = store[2]
        /\ zaddSince' = TRUE
        /\ inserted' = [inserted EXCEPT ![id] = @ + 1]
        /\ UNCHANGED <<pc, task, claimed, delay, wakeAt, raised, returned, claimLog,
                       resolved, zaddBetween>>

(***************************************************************************)
(* worker/worker.py: worker_loop                                           *)
(***************************************************************************)
\* queue_size = get_queue_size(); if queue_size == 0: sleep, continue
Poll(w) ==
    /\ pc[w] = "poll"
    /\ pc' = [pc EXCEPT ![w] = IF get_queue_size = 0 THEN "idle" ELSE "dequeue"]
    /\ UNCHANGED <<queue, statusTable, task, claimed, delay, wakeAt, raised,
               now, zaddSince, zaddBetween,
               inserted, returned, claimLog, resolved>>

\* time.sleep(IDLE_SLEEP_SECONDS) returns (line 62 or line 68); continue
IdleWake(w) ==
    /\ pc[w] \in {"idle", "idle_miss"}
    /\ pc' = [pc EXCEPT ![w] = "poll"]
    /\ UNCHANGED <<queue, statusTable, task, claimed, delay, wakeAt, raised,
               now, zaddSince, zaddBetween,
               inserted, returned, claimLog, resolved>>

\* An exception other than KeyboardInterrupt leaves worker_loop: the process
\* ends and its locals with it.
Crash(w, exc) ==
    /\ raised' = [raised EXCEPT ![w] = exc]
    /\ pc' = [pc EXCEPT ![w] = "crashed"]
    /\ task' = [task EXCEPT ![w] = NoTask]
    /\ claimed' = [claimed EXCEPT ![w] = NoEntry]
    /\ delay' = [delay EXCEPT ![w] = 0]
    /\ wakeAt' = [wakeAt EXCEPT ![w] = 0]

\* variant: no test for None, so that the use of the task raises
DequeueMiss_Raises(w) ==
    /\ Crash(w, "AttributeError")
    /\ UNCHANGED <<queue, statusTable, now, zaddSince, zaddBetween, inserted,
               returned, claimLog, resolved>>

\* dequeue_task() returns None: the worker sleeps at line 68 and continues
DequeueMiss(w) ==
    /\ pc' = [pc EXCEPT ![w] = "idle_miss"]
    /\ task' = [task EXCEPT ![w] = NoTask]
    /\ claimed' = [claimed EXCEPT ![w] = NoEntry]
    /\ UNCHANGED <<queue, statusTable, delay, wakeAt, raised, now, zaddSince,
               zaddBetween, inserted, returned, claimLog, resolved>>

\* task = dequeue_task(); if task is None: sleep, continue
Dequeue(w) ==
    /\ pc[w] = "dequeue"
    /\ IF queue = {}
       THEN DequeueMiss(w)
       ELSE LET t == from_dict(ZMin(queue).member)
                e == [priority |-> t.priority, created_at |-> t.created_at,
                      score |-> ZMin(queue).score]
            IN
            /\ queue' = ZPopMin(queue)
            /\ task' = [task EXCEPT ![w] = t]
            /\ claimed' = [claimed EXCEPT ![w] = ZMin(queue)]
            /\ returned' = [returned EXCEPT ![t.id] = @ + 1]
            /\ claimLog' = IF claimLog = <<>>
                           THEN <<e>>
                           ELSE <<claimLog[Len(claimLog)], e>>
            /\ zaddBetween' = zaddSince
            /\ zaddSince' = FALSE
            /\ pc' = [pc EXCEPT ![w] = "execute"]
            /\ UNCHANGED <<statusTable, delay, wakeAt, raised, now,
               inserted, resolved>>

\* success = execute_task(task) returns True; task.status = "COMPLETED";
\* mark_task_completed() is called without its task_id argument, which raises
\* TypeError before any command reaches the store.
ExecuteSuccess(w) ==
    /\ pc[w] = "execute"
    /\ resolved' = [resolved EXCEPT ![task[w].id] = "COMPLETED"]
    /\ Crash(w, "TypeError")
    /\ UNCHANGED <<queue, statusTable, now, zaddSince,
               zaddBetween, inserted, returned, claimLog>>

\* variant: the limit counts attempts, as the comment on MAX_RETRIES says
RetriesExhausted_AtLimit(retries) == retries >= MAX_RETRIES

\* the test of worker.py line 84 on the incremented retries
RetriesExhausted(retries) == retries > MAX_RETRIES

\* variant: linear instead of exponential backoff
BackoffDelay_Linear(retries) == BASE * retries

\* delay = 2**task.retries
BackoffDelay(retries) == Pow(BASE, retries)

\* success = execute_task(task) returns False; task.retries += 1; then either
\* the FAILED branch (task.status = "FAILED"; mark_task_failed() without its
\* argument raises TypeError) or the retry branch up to the call of
\* time.sleep(delay)
ExecuteFailure(w) ==
    /\ pc[w] = "execute"
    /\ LET retries == task[w].retries + 1 IN
       IF RetriesExhausted(retries)
       THEN /\ resolved' = [resolved EXCEPT ![task[w].id] = "FAILED"]
            /\ Crash(w, "TypeError")
       ELSE /\ task' = [task EXCEPT ![w].retries = retries]
            /\ UNCHANGED claimed
            /\ delay' = [delay EXCEPT ![w] = BackoffDelay(retries)]
            /\ wakeAt' = [wakeAt EXCEPT ![w] = now + BackoffDelay(retries)]
            /\ pc' = [pc EXCEPT ![w] = "backoff"]
            /\ UNCHANGED <<raised, resolved>>
    /\ UNCHANGED <<queue, statusTable, now, zaddSince,
               zaddBetween, inserted, returned, claimLog>>

\* time.sleep(delay) returns, at wakeAt at the earliest; enqueue_task(task)
\* runs its zadd
RequeueZAdd(w) ==
    /\ pc[w] = "backoff"
    /\ now' = IF now >= wakeAt[w] THEN now ELSE wakeAt[w]
    /\ queue' = EnqueueZAdd(queue, task[w])
    /\ zaddSince' = TRUE
    /\ inserted' = [inserted EXCEPT ![task[w].id] = @ + 1]
    /\ pc' = [pc EXCEPT ![w] = "requeue_hset"]
    /\ UNCHANGED <<statusTable, task, claimed, delay, wakeAt, raised,
               returned, claimLog, resolved,
               zaddBetween>>

\* enqueue_task(task) runs its hset; task.status = "REQUEUED"; the iteration
\* ends and its locals are dead
RequeueHSet(w) ==
    /\ pc[w] = "requeue_hset"
    /\ statusTable' = EnqueueHSet(statusTable, task[w])
    /\ task' = [task EXCEPT ![w] = NoTask]
    /\ claimed' = [claimed EXCEPT ![w] = NoEntry]
    /\ delay' = [delay EXCEPT ![w] = 0]
    /\ wakeAt' = [wakeAt EXCEPT ![w] = 0]
    /\ pc' = [pc EXCEPT ![w] = "poll"]
    /\ UNCHANGED <<queue, raised, now, zaddSince,
               zaddBetween, inserted, returned, claimLog,
               resolved>>

\* KeyboardInterrupt: the except clause ends the loop and the process
Shutdown(w) ==
    /\ pc[w] \notin {"crashed", "stopped"}
    /\ pc' = [pc EXCEPT ![w] = "stopped"]
    /\ task' = [task EXCEPT ![w] = NoTask]
    /\ claimed' = [claimed EXCEPT ![w] = NoEntry]
    /\ delay' = [delay EXCEPT ![w] = 0]
    /\ wakeAt' = [wakeAt EXCEPT ![w] = 0]
    /\ UNCHANGED <<queue, statusTable, raised, now, zaddSince, zaddBetween, inserted, returned,
               claimLog, resolved>>

Next ==
    \/ submit_task
    \/ \E w \in Workers : Poll(w)
    \/ \E w \in Workers : IdleWake(w)
    \/ \E w \in Workers : Dequeue(w)
    \/ \E w \in Workers : ExecuteSuccess(w)
    \/ \E w \in Workers : ExecuteFailure(w)
    \/ \E w \in Workers : RequeueZAdd(w)
    \/ \E w \in Workers : RequeueHSet(w)

Spec == Init /\ [][Next]_vars

\* the same system with the shutdown signal
NextShutdown ==
    \/ Next
    \/ \E w \in Workers : Shutdown(w)

SpecShutdown == Init /\ [][NextShutdown]_vars

\* execute_task(task) raises: line 72 is inside the try block whose only
\* handler is for KeyboardInterrupt, so the exception leaves worker_loop
ExecuteRaises(w) ==
    /\ pc[w] = "execute"
    /\ Crash(w, "ExecutorError")
    /\ UNCHANGED <<queue, statusTable, now, zaddSince, zaddBetween, inserted,
               returned, claimLog, resolved>>

\* the same system with an executor that may raise
NextExecutorError ==
    \/ Next
    \/ \E w \in Workers : ExecuteRaises(w)

SpecExecutorError == Init /\ [][NextExecutorError]_vars

\* one iteration step of the loop of worker w
WorkerStep(w) ==
    \/ Poll(w)
    \/ IdleWake(w)
    \/ Dequeue(w)
    \/ ExecuteSuccess(w)
    \/ ExecuteFailure(w)
    \/ RequeueZAdd(w)
    \/ RequeueHSet(w)

\* a deployment of one worker process that is never shut down and is always
\* scheduled again
NextSingleWorker ==
    \/ submit_task
    \/ WorkerStep(1)

SpecSingleWorker ==
    Init /\ [][NextSingleWorker]_vars /\ WF_vars(WorkerStep(1))

(***************************************************************************)
(* Properties                                                              *)
(***************************************************************************)
QueueIds == {e.member["id"] : e \in queue}

EntriesOf(i) == {e \in queue : e.member["id"] = i}

\* the worker has a claimed task that it has neither resolved nor put back
Holding(w) == pc[w] \in {"execute", "backoff"}

Abs(x) == IF x < 0 THEN -x ELSE x

\* C1: no queue entry is returned to more than one caller: every entry that
\* was inserted is either still in the queue or was returned exactly once,
\* two workers never hold the same entry, and a dequeue_task call against a
\* queue that has entries returns one of them (so N calls against N entries
\* return all N, each once).
C1_EachEntryReturnedOnce ==
    /\ [](\A i \in TaskIds :
            inserted[i] = returned[i] + Cardinality(EntriesOf(i)))
    /\ [](\A w1, w2 \in Workers :
            w1 # w2 /\ claimed[w1] # NoEntry => claimed[w1] # claimed[w2])
    /\ [][\A w \in Workers :
            pc[w] = "dequeue" /\ pc'[w] # "dequeue" /\ queue # {}
            => /\ pc'[w] = "execute"
               /\ claimed'[w] \in queue
               /\ queue' = queue \ {claimed'[w]}]_vars

\* two workers claimed concurrently against a queue of exactly two entries
C1_Witness ==
    /\ \A w \in Workers : pc[w] = "execute"
    /\ queue = {}
    /\ \A i \in TaskIds : inserted[i] = 1 /\ returned[i] = 1

\* C2 as stated: two claims with no insert between them, of tasks with
\* distinct priorities, come in descending priority order, whatever the
\* created_at values.
C2_DescendingPriorityAnyTime ==
    Len(claimLog) = 2 /\ ~zaddBetween /\ claimLog[1].priority # claimLog[2].priority
    => claimLog[1].priority > claimLog[2].priority

\* C2 amended: two claims with no insert between them, of tasks with distinct
\* priorities whose created_at values differ by less than K, come in
\* descending priority order.
C2_DescendingPriority ==
    /\ Len(claimLog) = 2
    /\ ~zaddBetween
    /\ claimLog[1].priority # claimLog[2].priority
    /\ Abs(claimLog[1].created_at - claimLog[2].created_at) < K
    => claimLog[1].priority > claimLog[2].priority

\* the task claimed first has the higher priority and was created later
C2_Witness ==
    /\ Len(claimLog) = 2
    /\ ~zaddBetween
    /\ claimLog[1].priority > claimLog[2].priority
    /\ claimLog[1].created_at > claimLog[2].created_at
    /\ claimLog[1].created_at - claimLog[2].created_at < K

\* C3: a claim returns a task whose created_at is no later than that of any
\* entry of equal priority that is in the queue with it.
C3_FifoWithinPriority ==
    [][\A w \in Workers :
        pc[w] = "dequeue" /\ pc'[w] = "execute"
        => \A e \in queue :
              e.member["priority"] = task'[w].priority
              => task'[w].created_at <= e.member["created_at"]]_vars

\* a reinserted task was claimed ahead of a task of equal priority that was
\* created later and was in the queue at the time of the claim
C3_Witness ==
    \E w \in Workers :
        /\ pc[w] = "execute"
        /\ ~zaddSince
        /\ task[w].retries > 0
        /\ claimLog[Len(claimLog)].created_at = task[w].created_at
        /\ \E e \in queue :
              /\ e.member["priority"] = task[w].priority
              /\ e.member["created_at"] > task[w].created_at
              /\ e.member["retries"] = 0

\* C4 as stated: the scores of successive claims never decrease.
C4_ScoresNeverDecrease ==
    Len(claimLog) = 2 => claimLog[1].score <= claimLog[2].score

\* C4 amended: the scores of two successive claims with no insert or
\* reinsertion between them do not decrease.
C4_ScoresNonDecreasingWithoutInsert ==
    Len(claimLog) = 2 /\ ~zaddBetween => claimLog[1].score <= claimLog[2].score

\* two successive claims without an insert between them, of different scores
C4_Witness ==
    /\ Len(claimLog) = 2
    /\ ~zaddBetween
    /\ claimLog[1].score < claimLog[2].score

\* the step of worker w is a failed execution (either branch of line 84)
FailureStep(w) ==
    /\ pc[w] = "execute"
    /\ \/ pc'[w] = "backoff"
       \/ resolved'[task[w].id] = "FAILED"

\* C5 as stated: a claimed task with retries = MAX_RETRIES - 1 whose execution
\* fails becomes failed and is not sent to the backoff and reinsertion.
C5_FailedAtLastRetry ==
    [][\A w \in Workers :
        FailureStep(w) /\ task[w].retries = MAX_RETRIES - 1
        => resolved'[task[w].id] = "FAILED" /\ pc'[w] # "backoff"]_vars

C7_ReinsertedEntry ==
    [][\A w \in Workers :
        pc[w] = "backoff" /\ pc'[w] = "requeue_hset"
        => \E e \in queue' :
              /\ queue' = queue \cup {e}
              /\ e \notin queue
              /\ e.member["retries"] = claimed[w].member["retries"] + 1
              /\ e.member["id"] = claimed[w].member["id"]
              /\ e.member["priority"] = claimed[w].member["priority"]
              /\ e.member["payload"] = claimed[w].member["payload"]
              /\ e.member["created_at"] = claimed[w].member["created_at"]
              /\ e.score = claimed[w].score]_vars

\* a worker has just reinserted a task, later than it was created
C7_Witness ==
    \E w \in Workers :
        /\ pc[w] = "requeue_hset"
        /\ now > claimed[w].member["created_at"]
        /\ \E e \in queue :
              /\ e.member["id"] = claimed[w].member["id"]
              /\ e.member["retries"] = claimed[w].member["retries"] + 1

\* the delays of the claim: 2, 4, 8 s before the 1st, 2nd, 3rd reinsertion
ExpectedDelay(n) == CASE n = 1 -> 2 [] n = 2 -> 4 [] n = 3 -> 8 [] OTHER -> -1

\* C8: the wait before the Nth reinsertion is BASE^N seconds (2, 4, 8 for
\* N = 1, 2, 3), N being the retries after the increment; it starts when the
\* execution has failed, and the reinsertion comes only after it.
C8_BackoffDelay ==
    [][\A w \in Workers :
        /\ pc[w] = "execute" /\ pc'[w] = "backoff"
           => /\ delay'[w] = ExpectedDelay(task'[w].retries)
              /\ wakeAt'[w] = now + delay'[w]
        /\ pc[w] = "backoff" /\ pc'[w] = "requeue_hset"
           => /\ delay[w] = ExpectedDelay(task[w].retries)
              /\ now' >= wakeAt[w]
              /\ \E e \in queue' \ queue : e.member["id"] = task[w].id]_vars

\* the third reinsertion of a task has happened, 8 s after its failure
C8_Witness ==
    \E w \in Workers :
        /\ pc[w] = "requeue_hset"
        /\ task[w].retries = 3
        /\ delay[w] = 8
        /\ now >= wakeAt[w]

C10_TerminalStatusPublished ==
    /\ \A i \in TaskIds : resolved[i] # "" => statusTable[i] = resolved[i]
    /\ \A w \in Workers : raised[w] = ""

\* C11 as stated: a worker that has executed a task goes on with its loop
\* (to the backoff of the reinsertion, or to a next iteration), and a worker
\* whose loop has ended was stopped by the shutdown signal.
C11_LoopNeverStopsOnTask ==
    [][\A w \in Workers :
        pc[w] = "execute" /\ pc'[w] # "execute"
        => pc'[w] \in {"backoff", "poll", "stopped"}]_vars

\* C12 as stated: when the executor raises, the worker does what it does on
\* a reported failure: retries is incremented and the task goes to the
\* backoff and reinsertion, or the task is set to FAILED.
C12_ExecutorErrorIsFailure ==
    [][\A w \in Workers :
        pc[w] = "execute" /\ raised'[w] = "ExecutorError"
        => \/ /\ pc'[w] = "backoff"
              /\ task'[w].id = task[w].id
              /\ task'[w].retries = task[w].retries + 1
           \/ resolved'[task[w].id] = "FAILED"]_vars

RECURSIVE Unclaimed(_)
\* entries inserted and not yet returned by a claim, over the ids of S
Unclaimed(S) ==
    IF S = {} THEN 0
    ELSE LET i == CHOOSE x \in S : TRUE
         IN (inserted[i] - returned[i]) + Unclaimed(S \ {i})

\* C13: queue_size of get_stats() is the number of entries inserted and not
\* yet claimed, which are the entries of the queue; the tasks held by
\* workers are not among them; and it is 0 when a claim has found nothing.
C13_QueueSizeIsUnclaimed ==
    /\ [](get_stats.queue_size = Unclaimed(TaskIds))
    /\ [](get_stats.queue_size = Cardinality(queue))
    /\ [](\A w \in Workers : Holding(w) => claimed[w] \notin queue)
    /\ [][\A w \in Workers :
            pc[w] = "dequeue" /\ pc'[w] = "idle_miss"
            => get_stats.queue_size = 0 /\ get_stats.queue_size' = 0]_vars

\* the queue has been drained: a claim has just found nothing while the
\* other worker holds a task, claimed for the second time, in its backoff
C13_Witness ==
    /\ \E w \in Workers : pc[w] = "idle_miss"
    /\ \E w \in Workers : pc[w] = "backoff" /\ returned[task[w].id] = 2
    /\ get_stats.queue_size = 0

\* C14: the task a claim returns equals in all six fields the task that was
\* given to the insert that made the entry: the entry a submission makes
\* reads back as the submitted task, the entry a reinsertion makes reads back
\* as the worker's task, every entry of the queue is the dictionary of the
\* task it reads back as, and a claim returns the task its entry reads
\* back as.
C14_RoundTrip ==
    /\ [](\A e \in queue : to_dict(from_dict(e.member)) = e.member)
    /\ [][\A i \in TaskIds :
            inserted[i] = 0 /\ inserted'[i] = 1
            => \E e \in queue' \ queue :
                  /\ queue' = queue \cup {e}
                  /\ \E payload \in Payloads, priority \in Priorities :
                        from_dict(e.member)
                          = Task(i, payload, priority, 0, "pending", now')]_vars
    /\ [][\A w \in Workers :
            /\ pc[w] = "backoff" /\ pc'[w] = "requeue_hset"
               => \E e \in queue' \ queue :
                     /\ queue' = queue \cup {e}
                     /\ from_dict(e.member) = task[w]
            /\ pc[w] = "dequeue" /\ pc'[w] = "execute"
               => /\ claimed'[w] \in queue
                  /\ task'[w] = from_dict(claimed'[w].member)
                  /\ to_dict(task'[w]) = claimed'[w].member]_vars

\* a worker has claimed the entry of a third reinsertion of a task that was
\* created late: no field of it has its default value
C14_Witness ==
    \E w \in Workers :
        /\ pc[w] = "execute"
        /\ task[w].retries = 3
        /\ task[w].created_at >= K
        /\ task[w].priority = 2
        /\ task[w].payload \in Payloads
        /\ task[w].status = "pending"
        /\ to_dict(task[w]) = claimed[w].member

\* C15 as stated: while a worker holds a claimed task, the status table has
\* IN_PROGRESS for its id.
C15_InProgressWhileHeld ==
    \A w \in Workers :
        Holding(w) => statusTable[task[w].id] = "IN_PROGRESS"

\* executions of task i that have ended: its claims, less the one whose
\* execution has not returned yet
Executions(i) ==
    returned[i] - Cardinality({w \in Workers : pc[w] = "execute" /\ task[w].id = i})

\* C16 as stated: no task is executed more than MAX_RETRIES times.
C16_AtMostMaxRetriesExecutions ==
    \A i \in TaskIds : Executions(i) <= MAX_RETRIES

\* C17 as stated: with a worker that runs, is not shut down and is scheduled
\* fairly, every submitted task is in the end set to COMPLETED or FAILED by a
\* worker.
C17_EveryTaskResolved ==
    \A i \in TaskIds : (inserted[i] > 0) ~> (resolved[i] # "")

\* C18: a worker that saw a queue size above 0 and whose dequeue_task then
\* finds the queue empty changes neither the queue nor the status table,
\* raises nothing, sleeps, and goes back to the top of its loop.
C18_ClaimRaceIsNoOp ==
    [][\A w \in Workers :
        /\ pc[w] = "dequeue" /\ queue = {} /\ pc'[w] # "dequeue"
           => /\ pc'[w] = "idle_miss"
              /\ queue' = queue
              /\ statusTable' = statusTable
              /\ raised'[w] = ""
        /\ pc[w] = "idle_miss" /\ pc'[w] # "idle_miss"
           => /\ pc'[w] = "poll"
              /\ queue' = queue
              /\ statusTable' = statusTable
              /\ raised'[w] = ""]_vars

\* a worker sleeps after a claim that found nothing, the other worker having
\* claimed the only entry in between
C18_Witness ==
    \E w, v \in Workers :
        /\ pc[w] = "idle_miss"
        /\ pc[v] = "execute"
        /\ returned[task[v].id] = 1
        /\ \A i \in TaskIds : i # task[v].id => inserted[i] = 0

\* C19: of two entries of the queue whose created_at differ by less than K,
\* the one of higher priority has the lower score, and a claim does not
\* return the other one.
C19_PriorityOutweighsTime ==
    /\ [](\A e1, e2 \in queue :
            /\ e1.member["priority"] > e2.member["priority"]
            /\ Abs(e1.member["created_at"] - e2.member["created_at"]) < K
            => /\ priority_score(e1.member["priority"], e1.member["created_at"])
                    < priority_score(e2.member["priority"], e2.member["created_at"])
               /\ e1.score < e2.score
               /\ ZMin(queue) # e2
               /\ e2 \in ZPopMin(queue))
    /\ [][\A w \in Workers :
            pc[w] = "dequeue" /\ pc'[w] = "execute"
            => \A e1, e2 \in queue :
                  /\ e1.member["priority"] > e2.member["priority"]
                  /\ Abs(e1.member["created_at"] - e2.member["created_at"]) < K
                  => claimed'[w] # e2 /\ task'[w].id # e2.member["id"]]_vars

\* the queue holds a task and a task of higher priority created after it,
\* less than K later, and a worker is about to claim
C19_Witness ==
    /\ \E e1, e2 \in queue :
          /\ e1.member["priority"] > e2.member["priority"]
          /\ e1.member["created_at"] > e2.member["created_at"]
          /\ e1.member["created_at"] - e2.member["created_at"] < K
    /\ \E w \in Workers : pc[w] = "dequeue"

\* the places task id i is in: entries of the queue, workers that hold it,
\* the terminal resolution
Places(i) ==
    Cardinality(EntriesOf(i))
    + Cardinality({w \in Workers : Holding(w) /\ task[w].id = i})
    + (IF resolved[i] # "" THEN 1 ELSE 0)

\* C20 as stated: every submitted task id is in exactly one place.
C20_ExactlyOnePlace ==
    \A i \in TaskIds : inserted[i] > 0 => Places(i) = 1

\* C20 amended: a task id is never in two places; a submitted task id is in
\* exactly one place unless a worker was stopped by the shutdown signal while
\* it held the task, which is the only step that takes a task out of its
\* one place.
C20_AtMostOnePlace ==
    /\ [](\A i \in TaskIds : Places(i) <= 1)
    /\ [](\A i \in TaskIds : inserted[i] = 0 => Places(i) = 0)
    /\ [](\A i \in TaskIds :
            inserted[i] > 0 /\ Places(i) = 0 => \E w \in Workers : pc[w] = "stopped")
    /\ [][\A i \in TaskIds :
            Places(i) = 1 /\ Places(i)' # 1
            => \E w \in Workers :
                  /\ Holding(w)
                  /\ task[w].id = i
                  /\ pc'[w] = "stopped"]_vars

\* one task was lost with the worker that was stopped while holding it, the
\* other is held by the other worker in its backoff
C20_Witness ==
    \E i, j \in TaskIds :
        /\ i # j
        /\ inserted[i] > 0
        /\ Places(i) = 0
        /\ Places(j) = 1
        /\ \E w \in Workers : pc[w] = "backoff" /\ task[w].id = j

====
